---------------------------- MODULE Spec2Model ----------------------------
(***************************************************************************)
(* A model of skyfield's almanac search routines (skyfield/almanac.py):    *)
(* find_discrete, _find_maxima and get_satellite_passes.                   *)
(*                                                                         *)
(* Times are Julian dates.  The code computes them in floating point; the  *)
(* model computes them exactly, as rational numbers <<n, d>> in lowest     *)
(* terms with d > 0, so that linspace and the mask arithmetic of the       *)
(* refinement step are the real-number functions the code approximates.    *)
(***************************************************************************)
EXTENDS Integers, Sequences, FiniteSets, TLC

(***************************************************************************)
(* Bounds of the model.                                                    *)
(***************************************************************************)
\* Times of a search lie in [0, MaxT]; an observable is a step function
\* whose steps are at the whole times 1 .. MaxT.
MaxT == 3
\* The refinement loop is followed for at most this many evaluations of f.
MaxRounds == 6
\* A satellite's altitude is given for the seconds 0 .. MaxPassT.
MaxPassT == 5

(***************************************************************************)
(* Exact rational arithmetic.                                              *)
(***************************************************************************)
Abs(x) == IF x < 0 THEN -x ELSE x

RECURSIVE GCD(_, _)
GCD(a, b) == IF b = 0 THEN a ELSE GCD(b, a % b)

\* The rational n/d (d # 0) in lowest terms with a positive denominator.
Rat(n, d) ==
    LET g == GCD(Abs(n), Abs(d))
        s == IF d < 0 THEN -1 ELSE 1
    IN  <<(s * n) \div g, (s * d) \div g>>

Whole(n) == <<n, 1>>
QAdd(a, b) == Rat(a[1] * b[2] + b[1] * a[2], a[2] * b[2])
QSub(a, b) == Rat(a[1] * b[2] - b[1] * a[2], a[2] * b[2])
QMul(a, b) == Rat(a[1] * b[1], a[2] * b[2])
QDiv(a, b) == Rat(a[1] * b[2], a[2] * b[1])
QLe(a, b) == a[1] * b[2] <= b[1] * a[2]
QLt(a, b) == a[1] * b[2] < b[1] * a[2]
\* Python's x // 1.0 : the floor of x.
QFloor(a) == a[1] \div a[2]

(***************************************************************************)
(* numpy helpers, on sequences (1-based).                                  *)
(***************************************************************************)
\* numpy.linspace(a, b, n): n evenly spaced samples from a to b inclusive.
Linspace(a, b, n) ==
    IF n <= 0 THEN <<>>
    ELSE IF n = 1 THEN <<a>>
    ELSE [i \in 1..n |-> QAdd(a, QMul(Rat(i - 1, n - 1), QSub(b, a)))]

\* a.take(idx): the elements of a at the positions idx.
Take(a, idx) == [k \in 1..Len(idx) |-> a[idx[k]]]

\* numpy.flatnonzero(flags): the positions of the true elements, in
\* increasing order.
RECURSIVE FlatNonzeroFrom(_, _)
FlatNonzeroFrom(flags, i) ==
    IF i > Len(flags) THEN <<>>
    ELSE IF flags[i] THEN <<i>> \o FlatNonzeroFrom(flags, i + 1)
    ELSE FlatNonzeroFrom(flags, i + 1)

FlatNonzero(flags) == FlatNonzeroFrom(flags, 1)

\* Mutant of FlatNonzeroDiff: flatnonzero(diff(y) >= 0).
FlatNonzeroDiffNonNegative(y) ==
    FlatNonzero([i \in 1..(Len(y) - 1) |-> y[i + 1] >= y[i]])

\* flatnonzero(diff(y)): the positions i with y[i+1] # y[i].
FlatNonzeroDiff(y) ==
    FlatNonzero([i \in 1..(Len(y) - 1) |-> y[i + 1] # y[i]])

\* [i + k : i in idx]
Shift(idx, k) == [j \in 1..Len(idx) |-> idx[j] + k]

(***************************************************************************)
(* Observables.  An observable f is a pure function of time with a         *)
(* rough_period attribute.  The search routines only call it (y = f(t)).   *)
(*                                                                         *)
(* kind "step": a step function on [0, MaxT] that is constant on every     *)
(* [c, c+1): f(t) = vals[floor t].  It changes value at a whole time c     *)
(* when vals differs between c-1 and c.                                    *)
(* kind "visible" and "rising": the observables that satellite_visible and *)
(* satellite_apices build from the altitude of a satellite, which the      *)
(* model gives as a step function alt of the time in seconds.              *)
(***************************************************************************)
Values == {0, 1, 2}
Profiles == [0..MaxT -> Values]
RoughPeriods == {Whole(1), Whole(MaxT)}
Observables == [kind : {"step"}, vals : Profiles, rough_period : RoughPeriods]

\* satellite_altitude_at(ephemeris, topos, satellite, t), in degrees.
AltitudeAt(alt, t) == alt[QFloor(t)]

\* is_satellite_up_at(t): altitude >= alt_deg_thresh.
IsSatelliteUpAt(f, t) == AltitudeAt(f.alt, t) >= f.thresh

\* is_satellite_rising(t): the altitude at t is greater than the altitude
\* one second earlier (t.utc_datetime() - timedelta(seconds=1)).
IsSatelliteRising(f, t) ==
    AltitudeAt(f.alt, t) > AltitudeAt(f.alt, QSub(t, Whole(1)))

\* A continuous function of time, such as the distance to a body: the
\* values vals at the whole times, joined by straight lines.
\* Its rough_period is a day, MaxT days or, as for the seasons, 90 days.
LinearObservables ==
    [kind : {"linear"}, vals : Profiles,
     rough_period : RoughPeriods \cup {Whole(90)}]

\* The value at t of the straight lines through vals, a rational.
Interpolate(vals, t) ==
    LET k == QFloor(t)
    IN  IF k >= MaxT THEN Whole(vals[MaxT])
        ELSE QAdd(Whole(vals[k]),
                  QMul(QSub(t, Whole(k)), Whole(vals[k + 1] - vals[k])))

\* A continuous function of time that repeats every day: within a day it
\* runs through the values vals, equally spaced, joined by straight lines.
PeriodicObservables ==
    [kind : {"periodic"}, vals : Profiles,
     rough_period : RoughPeriods \cup {Whole(90)}]

\* The value at t of the daily pattern vals, a rational.
Periodic(vals, t) ==
    LET n == MaxT + 1
        x == QMul(t, Whole(n))
        j == QFloor(x)
    IN  QAdd(Whole(vals[j % n]),
             QMul(QSub(x, Whole(j)),
                  Whole(vals[(j + 1) % n] - vals[j % n])))

\* f(t) for one time t.
ValueAt(f, t) ==
    CASE f.kind = "step" -> f.vals[QFloor(t)]
      [] f.kind = "linear" -> Interpolate(f.vals, t)
      [] f.kind = "periodic" -> Periodic(f.vals, t)
      [] f.kind = "visible" -> IsSatelliteUpAt(f, t)
      [] f.kind = "rising" -> IsSatelliteRising(f, t)

\* y = f(t) for an array of times: one batch evaluation.
Evaluate(f, times) == [i \in 1..Len(times) |-> ValueAt(f, times[i])]

(***************************************************************************)
(* The inputs of a search call.                                            *)
(***************************************************************************)
Times == {Whole(n) : n \in 0..MaxT}
StartTimes == {Whole(0), Whole(1)}
Epsilons == {Rat(1, 4), Whole(1)}
Nums == {2, 3, 4}

\* The default num of find_discrete and of _find_maxima.
DefaultNum == 12

NoArgs == [jd0 |-> Whole(0), jd1 |-> Whole(0), f |-> "none",
           epsilon |-> Whole(0), num |-> 0]
NoResult == [times |-> <<>>, values |-> <<>>]

(***************************************************************************)
(* The pieces of find_discrete and _find_maxima.                           *)
(***************************************************************************)
\* Mutant of InvalidRange: the check written with > instead of >=.
InvalidRangeStrict(jd0, jd1) == QLt(jd1, jd0)

\* The range check of both routines: jd0 >= jd1 raises ValueError.
InvalidRange(jd0, jd1) == QLe(jd1, jd0)

\* find_discrete: periods = (jd1 - jd0) / f.rough_period, at least 1.0;
\* the number of initial samples is periods * num // 1.0.
DiscreteSampleCount(jd0, jd1, rough_period, num) ==
    LET raw == QDiv(QSub(jd1, jd0), rough_period)
        periods == IF QLt(raw, Whole(1)) THEN Whole(1) ELSE raw
    IN  QFloor(QMul(periods, Whole(num)))

\* _find_maxima: (jd1 - jd0) / f.rough_period * num // 1.0, with no
\* lower limit on the number of periods.
MaximaSampleCount(jd0, jd1, rough_period, num) ==
    QFloor(QMul(QDiv(QSub(jd1, jd0), rough_period), Whole(num)))

\* end_mask = linspace(0.0, 1.0, num); start_mask = end_mask[::-1]
EndMask(num) == Linspace(Whole(0), Whole(1), num)
StartMask(num) ==
    LET end_mask == EndMask(num)
    IN  [j \in 1..num |-> end_mask[num + 1 - j]]

\* Mutant of Refine: the masks built with two points whatever num is, so
\* that a bracket is resampled at its two ends only.
RefineEndsOnly(starts, ends, num) ==
    [p \in 1..(Len(starts) * 2) |->
        IF p % 2 = 1 THEN starts[(p + 1) \div 2] ELSE ends[p \div 2]]

\* Mutant of Refine: one partition laid from the first start to the last
\* end, whatever lies between the brackets.
RefineAcross(starts, ends, num) ==
    Linspace(starts[1], ends[Len(ends)], Len(starts) * num)

\* jd = o(starts, start_mask).flatten() + o(ends, end_mask).flatten():
\* num samples from starts[k] to ends[k] for every bracket k, concatenated.
Refine(starts, ends, num) ==
    LET end_mask == EndMask(num)
        start_mask == StartMask(num)
    IN  [p \in 1..(Len(starts) * num) |->
            LET k == ((p - 1) \div num) + 1
                j == ((p - 1) % num) + 1
            IN  QAdd(QMul(starts[k], start_mask[j]),
                     QMul(ends[k], end_mask[j]))]

\* sign(x) of an integer.
Sign(x) == IF x > 0 THEN 1 ELSE IF x < 0 THEN -1 ELSE 0

\* sign(diff(y)): +1 where y rises from sample i to i+1, -1 where it
\* falls, 0 where it stays.  The values of a step f are integers, those of
\* a continuous f rationals.
SignDiff(f, y) ==
    [i \in 1..(Len(y) - 1) |->
        IF f.kind = "step"
        THEN Sign(y[i + 1] - y[i])
        ELSE Sign(QSub(y[i + 1], y[i])[1])]

\* flatnonzero(diff(s) == -2) for s = sign(diff(y)): the positions i where
\* y rises from sample i to i+1 and falls from i+1 to i+2.
MaximaIndices(s) ==
    FlatNonzero([i \in 1..(Len(s) - 1) |-> s[i + 1] - s[i] = -2])

\* Mutant of Converged: the first bracket measured against 4 * epsilon.
ConvergedEarly(starts, ends, epsilon) ==
    QLe(QSub(ends[1], starts[1]), QMul(Whole(4), epsilon))

\* The convergence test: only the first bracket is measured.
Converged(starts, ends, epsilon) == QLe(QSub(ends[1], starts[1]), epsilon)

\* Mutant of DiscreteValues: y.take(indices), the value before the change.
DiscreteValuesBefore(y, indices) == Take(y, indices)

\* y.take(indices + 1): find_discrete returns the value of f at the upper
\* end of every bracket.
DiscreteValues(y, indices) == Take(y, Shift(indices, 1))

\* _find_maxima returns y.take(indices): the value of f at the lower end of
\* every three-sample bracket.
MaximaValues(y, indices) == Take(y, indices)

\* One pass through the body of find_discrete's while loop (lines 91-107)
\* on the samples jd.  exit is "empty" (return at line 96), "break" (line
\* 105, followed by the return at line 109) or "again" (line 107).
DiscreteStep(f, epsilon, num, samples) ==
    LET y == Evaluate(f, samples)
        indices == FlatNonzeroDiff(y)
        starts == Take(samples, indices)
        ends == Take(samples, Shift(indices, 1))
    IN  IF indices = <<>>
        THEN [exit |-> "empty", starts |-> <<>>, ends |-> <<>>,
              times |-> <<>>, values |-> <<>>, jd |-> samples]
        ELSE IF Converged(starts, ends, epsilon)
        THEN [exit |-> "break", starts |-> starts, ends |-> ends,
              times |-> ends, values |-> DiscreteValues(y, indices),
              jd |-> samples]
        ELSE [exit |-> "again", starts |-> starts, ends |-> ends,
              times |-> <<>>, values |-> <<>>,
              jd |-> Refine(starts, ends, num)]

\* One pass through the body of _find_maxima's while loop (lines 127-143).
\* exit is "raise" (line 132), "break" (line 141, then the return at line
\* 145) or "again" (line 143).
MaximaStep(f, epsilon, num, samples) ==
    LET y == Evaluate(f, samples)
        indices == MaximaIndices(SignDiff(f, y))
        starts == Take(samples, indices)
        ends == Take(samples, Shift(indices, 2))
    IN  IF indices = <<>>
        THEN [exit |-> "raise", starts |-> <<>>, ends |-> <<>>,
              times |-> <<>>, values |-> <<>>, jd |-> samples]
        ELSE IF Converged(starts, ends, epsilon)
        THEN [exit |-> "break", starts |-> starts, ends |-> ends,
              times |-> ends, values |-> MaximaValues(y, indices),
              jd |-> samples]
        ELSE [exit |-> "again", starts |-> starts, ends |-> ends,
              times |-> <<>>, values |-> <<>>,
              jd |-> Refine(starts, ends, num)]

(***************************************************************************)
(* The state of one search call.                                           *)
(***************************************************************************)
VARIABLES
    pc,       \* "idle", "loop" (at the top of while True), "returned", "raised"
    routine,  \* "find_discrete" or "_find_maxima" ("none" before a call)
    args,     \* the arguments of the call
    jd,       \* the sample times of the coming evaluation
    evals,    \* how many times f has been evaluated in this call
    lo,       \* starts of the brackets found by the latest evaluation
    hi,       \* ends of the brackets found by the latest evaluation
    coarse,   \* the initial sample times of the call
    result,   \* the returned (times, values)
    error,    \* the exception raised ("" when none)
    ref,      \* an earlier call kept by the caller: its arguments and outcome
    pass,     \* the locals of a get_satellite_passes call
    coord,    \* a position object and the call of apparent() or horizontal()
    date,     \* a JulianDate object, or the values of a calendar conversion
    built     \* an observable built by the almanac and the Time it is given

search_vars == <<pc, routine, args, jd, evals, lo, hi, coarse, result, error>>
\* The objects outside the search routines.
object_vars == <<coord, date, built>>
not_coord == <<pc, routine, args, jd, evals, lo, hi, coarse, result, error,
               ref, pass, date, built>>
not_date == <<pc, routine, args, jd, evals, lo, hi, coarse, result, error,
              ref, pass, coord, built>>
not_built == <<pc, routine, args, jd, evals, lo, hi, coarse, result, error,
               ref, pass, coord, date>>
vars == <<pc, routine, args, jd, evals, lo, hi, coarse, result, error,
          ref, pass, object_vars>>

NoRef == [kept |-> FALSE]
NoPass == [stage |-> "idle"]
NoCoord == [stage |-> "none"]
NoDate == [stage |-> "none"]
NoBuilt == [stage |-> "none"]

Init ==
    /\ pc = "idle"
    /\ routine = "none"
    /\ args = NoArgs
    /\ jd = <<>>
    /\ evals = 0
    /\ lo = <<>>
    /\ hi = <<>>
    /\ coarse = <<>>
    /\ result = NoResult
    /\ error = ""
    /\ ref = NoRef
    /\ pass = NoPass
    /\ coord = NoCoord
    /\ date = NoDate
    /\ built = NoBuilt

RangeError == "ValueError: start_time is later than end_time"
NoMaximumError == "ValueError: cannot find a maximum in that range"

\* Mutant of Enter: the initial samples are computed only when no samples
\* are left from an earlier call.
EnterStale(name, start, end, f, epsilon, num, count) ==
    /\ routine' = name
    /\ args' = [jd0 |-> start, jd1 |-> end, f |-> f,
                epsilon |-> epsilon, num |-> num]
    /\ evals' = 0
    /\ lo' = <<>>
    /\ hi' = <<>>
    /\ result' = NoResult
    /\ IF InvalidRange(start, end)
       THEN /\ pc' = "raised"
            /\ error' = RangeError
            /\ jd' = <<>>
            /\ coarse' = <<>>
       ELSE /\ pc' = "loop"
            /\ error' = ""
            /\ jd' = IF jd # <<>> THEN jd ELSE Linspace(start, end, count)
            /\ coarse' = jd'

\* Entry of a search routine up to the top of its loop (lines 73-88 and
\* 113-124): the range check, then the initial samples.
Enter(name, start, end, f, epsilon, num, count) ==
    /\ routine' = name
    /\ args' = [jd0 |-> start, jd1 |-> end, f |-> f,
                epsilon |-> epsilon, num |-> num]
    /\ evals' = 0
    /\ lo' = <<>>
    /\ hi' = <<>>
    /\ result' = NoResult
    /\ IF InvalidRange(start, end)
       THEN /\ pc' = "raised"
            /\ error' = RangeError
            /\ jd' = <<>>
            /\ coarse' = <<>>
       ELSE /\ pc' = "loop"
            /\ error' = ""
            /\ jd' = Linspace(start, end, count)
            /\ coarse' = jd'

CallFindDiscrete(start, end, f, epsilon, num) ==
    Enter("find_discrete", start, end, f, epsilon, num,
          DiscreteSampleCount(start, end, f.rough_period, num))

CallFindMaxima(start, end, f, epsilon, num) ==
    Enter("_find_maxima", start, end, f, epsilon, num,
          MaximaSampleCount(start, end, f.rough_period, num))

\* One pass through the body of find_discrete's while loop.
DiscreteRound ==
    /\ pc = "loop"
    /\ routine = "find_discrete"
    /\ evals < MaxRounds
    /\ \E step \in {DiscreteStep(args.f, args.epsilon, args.num, jd)} :
           /\ evals' = evals + 1
           /\ lo' = step.starts
           /\ hi' = step.ends
           /\ jd' = step.jd
           /\ pc' = IF step.exit = "again" THEN "loop" ELSE "returned"
           /\ result' = [times |-> step.times, values |-> step.values]
    /\ UNCHANGED <<routine, args, coarse, error, ref, pass, object_vars>>

\* One pass through the body of _find_maxima's while loop.
MaximaRound ==
    /\ pc = "loop"
    /\ routine = "_find_maxima"
    /\ evals < MaxRounds
    /\ \E step \in {MaximaStep(args.f, args.epsilon, args.num, jd)} :
           /\ evals' = evals + 1
           /\ lo' = step.starts
           /\ hi' = step.ends
           /\ jd' = step.jd
           /\ pc' = CASE step.exit = "again" -> "loop"
                      [] step.exit = "break" -> "returned"
                      [] step.exit = "raise" -> "raised"
           /\ error' = IF step.exit = "raise" THEN NoMaximumError ELSE ""
           /\ result' = [times |-> step.times, values |-> step.values]
    /\ UNCHANGED <<routine, args, coarse, ref, pass, object_vars>>

\* A caller makes one call; the call then runs to its return or its raise.
Call ==
    /\ pc = "idle"
    /\ \E start \in StartTimes, end \in Times, f \in Observables,
          epsilon \in Epsilons, num \in Nums :
            \/ CallFindDiscrete(start, end, f, epsilon, num)
            \/ CallFindMaxima(start, end, f, epsilon, num)
    /\ UNCHANGED <<ref, pass, object_vars>>

Next ==
    \/ Call
    \/ DiscreteRound
    \/ MaximaRound

Spec == Init /\ [][Next]_vars

(***************************************************************************)
(* _find_maxima on continuous functions.                                   *)
(***************************************************************************)
MaximaNums == {3, 4, DefaultNum}

\* A caller calls _find_maxima with a continuous f.
CallMaxima ==
    /\ pc = "idle"
    /\ \E start \in StartTimes, end \in Times,
          f \in LinearObservables \cup PeriodicObservables,
          epsilon \in Epsilons, num \in MaximaNums :
            CallFindMaxima(start, end, f, epsilon, num)
    /\ UNCHANGED <<ref, pass, object_vars>>

NextMaxima ==
    \/ CallMaxima
    \/ MaximaRound

SpecMaxima == Init /\ [][NextMaxima]_vars

(***************************************************************************)
(* A caller that repeats a call.  The first call of the caller is kept     *)
(* (its arguments and its outcome); the caller then makes other calls and  *)
(* makes the kept call again.                                              *)
(***************************************************************************)
Finished == pc \in {"returned", "raised"}

FirstCall ==
    /\ pc = "idle"
    /\ \E end \in Times, f \in Observables, epsilon \in Epsilons,
          num \in Nums :
            CallFindDiscrete(Whole(0), end, f, epsilon, num)
    /\ UNCHANGED <<ref, pass, object_vars>>

Keep ==
    /\ Finished
    /\ ~ref.kept
    /\ ref' = [kept |-> TRUE, between |-> FALSE, args |-> args,
               outcome |-> pc, result |-> result, error |-> error]
    /\ UNCHANGED <<search_vars, pass, object_vars>>

\* Other searches: the same search with another fan-out, the search of an
\* observable with other values, and a maximum search.
OtherObservable(f) ==
    [f EXCEPT !.vals = [c \in 0..MaxT |-> (f.vals[c] + 1) % 3]]

OtherCall ==
    /\ Finished
    /\ ref.kept
    /\ LET a == ref.args
       IN  \/ \E num \in Nums \ {a.num} :
                CallFindDiscrete(a.jd0, a.jd1, a.f, a.epsilon, num)
           \/ CallFindDiscrete(a.jd0, a.jd1, OtherObservable(a.f),
                               a.epsilon, a.num)
           \/ CallFindMaxima(a.jd0, a.jd1, a.f, a.epsilon, a.num)
    /\ ref' = [ref EXCEPT !.between = TRUE]
    /\ UNCHANGED <<pass, object_vars>>

SameCall ==
    /\ Finished
    /\ ref.kept
    /\ LET a == ref.args
       IN  CallFindDiscrete(a.jd0, a.jd1, a.f, a.epsilon, a.num)
    /\ UNCHANGED <<ref, pass, object_vars>>

NextRepeat ==
    \/ FirstCall
    \/ Keep
    \/ OtherCall
    \/ SameCall
    \/ DiscreteRound
    \/ MaximaRound

SpecRepeat == Init /\ [][NextRepeat]_vars

(***************************************************************************)
(* get_satellite_passes.  Times are in seconds here: the epsilon of its    *)
(* two searches, 1.1574074074074074e-05 day, is 1, and is_satellite_rising *)
(* compares with the altitude 1 earlier.                                   *)
(***************************************************************************)
\* epsilon=1.1574074074074074e-05  # 1 second
PassEpsilon == Whole(1)
\* is_satellite_rising.rough_period = 1 (day), in seconds.
ApicesRoughPeriod == Whole(86400)

\* A whole call of find_discrete, as a function of its arguments: the range
\* check, the initial samples, then the loop.  status is "raised",
\* "returned", or "running" when MaxRounds evaluations did not end the loop.
RECURSIVE DiscreteLoop(_, _, _, _, _)
DiscreteLoop(f, epsilon, num, samples, rounds) ==
    LET step == DiscreteStep(f, epsilon, num, samples)
    IN  IF step.exit # "again"
        THEN [status |-> "returned", error |-> "",
              times |-> step.times, values |-> step.values]
        ELSE IF rounds >= MaxRounds
        THEN [status |-> "running", error |-> "",
              times |-> <<>>, values |-> <<>>]
        ELSE DiscreteLoop(f, epsilon, num, step.jd, rounds + 1)

FindDiscrete(start, end, f, epsilon, num) ==
    IF InvalidRange(start, end)
    THEN [status |-> "raised", error |-> RangeError,
          times |-> <<>>, values |-> <<>>]
    ELSE DiscreteLoop(f, epsilon, num,
                      Linspace(start, end,
                               DiscreteSampleCount(start, end,
                                                   f.rough_period, num)),
                      1)

\* The satellites of the model: an altitude for every second, the altitude
\* threshold of the call, and the orbital period that satellite_visible
\* makes its rough_period.
Heights == {0, 1, 2}
Satellites ==
    [alt : [0..MaxPassT -> Heights], thresh : {1},
     period : {Whole(2), Whole(5400)}]

\* satellite_visible(ephemeris, topos, satellite, alt_deg_thresh)
SatelliteVisible(sat) ==
    [kind |-> "visible", alt |-> sat.alt, thresh |-> sat.thresh,
     rough_period |-> sat.period]

\* satellite_apices(ephemeris, topos, satellite, alt_deg_thresh)
SatelliteApices(sat) ==
    [kind |-> "rising", alt |-> sat.alt, rough_period |-> ApicesRoughPeriod]

\* satellite_azimut_at(ephemeris, topos, satellite, t), in degrees.  The
\* orbit is not propagated here: the satellite is taken to cross the sky
\* from azimuth 180 at one degree a second, so that the azimuth tells the
\* time it was evaluated at.
SatelliteAzimutAt(sat, t) == QAdd(Whole(180), t)

\* satellite_altitude_at(ephemeris, topos, satellite, t), in degrees.
SatelliteAltitudeAt(sat, t) == Whole(AltitudeAt(sat.alt, t))

\* t[y] and t[~y]: the elements of t selected by a boolean mask.
MaskTrue(t, y) == Take(t, FlatNonzero(y))
MaskFalse(t, y) == Take(t, FlatNonzero([i \in 1..Len(y) |-> ~y[i]]))

Min(a, b) == IF a <= b THEN a ELSE b

\* list(zip(rise_time, set_time)): the k-th rise with the k-th set, as many
\* pairs as the shorter list has elements.
ZipPairs(rises, sets) ==
    [k \in 1..Min(Len(rises), Len(sets)) |-> <<rises[k], sets[k]>>]

\* Mutant of PassTuples: the fields in the order of the docstring (the three
\* times first).
PassTuplesTimesFirst(sat, rises, sets, apices) ==
    [k \in 1..Min(Min(Len(rises), Len(sets)), Len(apices)) |->
        <<rises[k], apices[k], sets[k],
          SatelliteAzimutAt(sat, rises[k]),
          SatelliteAzimutAt(sat, apices[k]),
          SatelliteAzimutAt(sat, sets[k]),
          SatelliteAltitudeAt(sat, apices[k])>>]

\* The returned list(zip(rise_time, azimuts_at_rise_time, apices_time,
\* azimuts_at_apex_time, set_time, azimuts_at_set_time, altitudes)).
PassTuples(sat, rises, sets, apices) ==
    [k \in 1..Min(Min(Len(rises), Len(sets)), Len(apices)) |->
        <<rises[k], SatelliteAzimutAt(sat, rises[k]),
          apices[k], SatelliteAzimutAt(sat, apices[k]),
          sets[k], SatelliteAzimutAt(sat, sets[k]),
          SatelliteAltitudeAt(sat, apices[k])>>]

IndexError == "IndexError: index 0 is out of bounds"

\* Lines 176-211: the search for the rise and set times, their split by the
\* new value, and their pairing.
PassesSearch(sat, from_time, to_time) ==
    /\ pass.stage = "idle"
    /\ \E found \in {FindDiscrete(from_time, to_time, SatelliteVisible(sat),
                                  PassEpsilon, DefaultNum)} :
       \E rise_time \in {MaskTrue(found.times, found.values)} :
       \E set_time \in {MaskFalse(found.times, found.values)} :
          pass' = [stage |-> IF found.status = "returned" THEN "apices"
                             ELSE found.status,
                   error |-> found.error,
                   sat |-> sat,
                   from_time |-> from_time,
                   to_time |-> to_time,
                   t |-> found.times,
                   y |-> found.values,
                   rise_time |-> rise_time,
                   set_time |-> set_time,
                   rise_set_times |-> ZipPairs(rise_time, set_time),
                   apices_time |-> <<>>,
                   tuples |-> <<>>]
    /\ UNCHANGED <<search_vars, ref, object_vars>>

\* Lines 214-227, one element of the list: find_discrete(_rise_time,
\* _set_time, satellite_apices(...))[0][0] for the next pair.
PassesApex ==
    /\ pass.stage = "apices"
    /\ Len(pass.apices_time) < Len(pass.rise_set_times)
    /\ \E pair \in {pass.rise_set_times[Len(pass.apices_time) + 1]} :
       \E found \in {FindDiscrete(pair[1], pair[2],
                                  SatelliteApices(pass.sat),
                                  PassEpsilon, DefaultNum)} :
          pass' =
             IF found.status # "returned"
             THEN [pass EXCEPT !.stage = found.status,
                               !.error = found.error]
             ELSE IF found.times = <<>>
             THEN [pass EXCEPT !.stage = "raised", !.error = IndexError]
             ELSE [pass EXCEPT
                     !.apices_time = Append(@, found.times[1])]
    /\ UNCHANGED <<search_vars, ref, object_vars>>

\* Lines 229-259: the azimuths and altitudes, and the returned list.
PassesReturn ==
    /\ pass.stage = "apices"
    /\ Len(pass.apices_time) = Len(pass.rise_set_times)
    /\ pass' = [pass EXCEPT
                  !.stage = "returned",
                  !.tuples = PassTuples(pass.sat, pass.rise_time,
                                        pass.set_time, pass.apices_time)]
    /\ UNCHANGED <<search_vars, ref, object_vars>>

PassesCall ==
    /\ pass.stage = "idle"
    /\ \E sat \in Satellites,
          to_time \in {Whole(1), Whole(MaxPassT - 1), Whole(MaxPassT)} :
            PassesSearch(sat, Whole(1), to_time)

NextPasses ==
    \/ PassesCall
    \/ PassesApex
    \/ PassesReturn

SpecPasses == Init /\ [][NextPasses]_vars

(***************************************************************************)
(* skyfield/coordinates.py: GCRS.apparent and Apparent.horizontal.         *)
(*                                                                         *)
(* Angles in radians are whole numbers of a unit of which a full turn has  *)
(* TAU.  Floating point is kept in one respect: values of magnitude pi or  *)
(* more are CoarseUlp units apart, smaller ones one unit apart, and a sum  *)
(* is rounded to the nearest value of its magnitude (ties to the even      *)
(* multiple), so that a small negative angle plus TAU is TAU.              *)
(***************************************************************************)
TAU == 64
pi == TAU \div 2
quarter_tau == TAU \div 4
CoarseUlp == 4
\* The larger size of a vector component; the smaller is 1.
Big == 8
\* The attributes of one JulianDate are read at most MaxReads times.
MaxReads == 3
\* The years converted to a Julian date begin with FirstYear.
FirstYear == 1900

RoundFloat(x) ==
    IF Abs(x) < pi THEN x
    ELSE LET down == (x \div CoarseUlp) * CoarseUlp
             rest == x - down
         IN  IF 2 * rest < CoarseUlp THEN down
             ELSE IF 2 * rest > CoarseUlp THEN down + CoarseUlp
             ELSE IF (down \div CoarseUlp) % 2 = 0 THEN down
             ELSE down + CoarseUlp

FloatAdd(a, b) == RoundFloat(a + b)
FloatSub(a, b) == RoundFloat(a - b)

\* numpy.sqrt, to the whole number below.
Sqrt(n) == CHOOSE r \in 0..(2 * Big) : r * r <= n /\ n < (r + 1) * (r + 1)

\* numpy.arctan2(y, x) for 0 <= y <= x, x > 0: an angle in [0, TAU / 8].
ArcTanOctant(y, x) ==
    IF y = 0 THEN 0
    ELSE IF y * Big <= x THEN 1
    ELSE IF y < x THEN 4
    ELSE 8

\* numpy.arctan2(y, x) for x >= 0, y >= 0: an angle in [0, TAU / 4].
ArcTanQuadrant(y, x) ==
    IF x = 0 /\ y = 0 THEN 0
    ELSE IF y <= x THEN ArcTanOctant(y, x)
    ELSE quarter_tau - ArcTanOctant(x, y)

\* numpy.arctan2(y, x): an angle in [-pi, pi].
ArcTan2(y, x) ==
    LET a == ArcTanQuadrant(Abs(y), Abs(x))
        b == IF x >= 0 THEN a ELSE pi - a
    IN  IF y >= 0 THEN b ELSE -b

\* The observers: observer.geocentric (ICRS: True, ToposICRS: False) and
\* whether the observer has the attribute topos, which Topos.__call__ sets
\* to a Topos with up, north and west.
Observers == [geocentric : BOOLEAN, topos : BOOLEAN]

\* Angles in degrees are in tenths of a degree.
HalfPiDegrees == 900
PiDegrees == 1800
LimbAngleThreshold == 8

\* What compute_limb_angle works from: whether disobs >= rade, the value
\* of arcsin(rade / disobs) and the zenith distance of the object.
LimbGeometries ==
    [above_surface : BOOLEAN, arcsin : {885}, zdobj : {0, 892, 907, 908}]

\* compute_limb_angle(position, observer)[0]
ComputeLimbAngle(g) ==
    LET aprad == IF g.above_surface THEN g.arcsin ELSE HalfPiDegrees
        zdlim == PiDegrees - aprad
    IN  zdlim - g.zdobj

\* Mutant of IncludeEarthDeflection: the geocentric case is not told apart.
IncludeEarthDeflectionAnyObserver(observer, g) ==
    ComputeLimbAngle(g) >= LimbAngleThreshold

\* Lines 117-122: include_earth_deflection.
IncludeEarthDeflection(observer, g) ==
    IF observer.geocentric THEN FALSE
    ELSE ComputeLimbAngle(g) >= LimbAngleThreshold

\* The components pz, pn, pw of the position along the spun up, north and
\* west vectors.
Components == {-Big, -1, 0, 1, Big}

MissingObserverFrame ==
    "ValueError: to compute an apparent position, you must observe from a specific Earth location that you specify using a Topos instance"
NoAzimuth == "AttributeError: 'Horizontal' object has no attribute 'az'"

\* Mutant of NormalizeAzimuth: without the second test.
NormalizeAzimuthOnce(az) == IF az < 0 THEN FloatAdd(az, TAU) ELSE az

\* Lines 205-209: if h.az < 0.0: h.az += TAU; if h.az >= TAU: h.az -= TAU
NormalizeAzimuth(az) ==
    LET once == IF az < 0 THEN FloatAdd(az, TAU) ELSE az
    IN  IF once >= TAU THEN FloatSub(once, TAU) ELSE once

\* Mutant of HasObserverFrame: the attributes are taken to be there.
HasObserverFrameAlways(observer) == TRUE

\* Lines 162-167: topos = self.observer.topos; topos.up, .north, .west are
\* read without an AttributeError.
HasObserverFrame(observer) == observer.topos

\* A position relative to an observer, as observe() returns it.  The
\* fields of the later stages are there from the start and not yet set.
Observe(observer, g, pz, pn, pw) ==
    /\ coord.stage = "none"
    /\ coord' = [stage |-> "gcrs", observer |-> observer, geometry |-> g,
                 pz |-> pz, pn |-> pn, pw |-> pw,
                 include_earth_deflection |-> FALSE, passed |-> FALSE,
                 position |-> <<>>, az |-> 0, zd |-> 0, alt |-> 0,
                 error |-> ""]
    /\ UNCHANGED not_coord

\* One stage of apparent(): its name is appended to the history of the
\* position, which is the stage's input.
Staged(c, to, step) ==
    [c EXCEPT !.stage = to, !.position = Append(c.position, step)]

\* Lines 111-125: jd, position, observer and include_earth_deflection.
ApparentDecide ==
    /\ coord.stage = "gcrs"
    /\ coord' = [coord EXCEPT
           !.stage = "decided",
           !.include_earth_deflection =
               IncludeEarthDeflection(coord.observer, coord.geometry)]
    /\ UNCHANGED not_coord

\* Lines 127-128: add_deflection(position, ..., include_earth_deflection)
ApparentDeflection ==
    /\ coord.stage = "decided"
    /\ coord' = [coord EXCEPT
           !.stage = "deflected",
           !.passed = coord.include_earth_deflection,
           !.position = Append(coord.position, "add_deflection")]
    /\ UNCHANGED not_coord

\* Mutant of ApparentAberration: aberration is added to the position that
\* has not been through add_deflection.
ApparentAberrationUndeflected ==
    /\ coord.stage = "decided"
    /\ coord' = Staged(coord, "aberrated", "add_aberration")
    /\ UNCHANGED not_coord

\* Line 129: add_aberration(position, observer.velocity, self.lighttime)
ApparentAberration ==
    /\ coord.stage = "deflected"
    /\ coord' = Staged(coord, "aberrated", "add_aberration")
    /\ UNCHANGED not_coord

\* Lines 131-136: position.T.dot(ICRS_to_J2000)
ApparentFrame ==
    /\ coord.stage = "aberrated"
    /\ coord' = Staged(coord, "rotated", "ICRS_to_J2000")
    /\ UNCHANGED not_coord

\* Line 137: einsum('ij,jki->ik', position, compute_precession(jd_tdb))
ApparentPrecession ==
    /\ coord.stage = "rotated"
    /\ coord' = Staged(coord, "precessed", "compute_precession")
    /\ UNCHANGED not_coord

\* Line 138: einsum('ij,jki->ik', position, compute_nutation(jd))
ApparentNutation ==
    /\ coord.stage = "precessed"
    /\ coord' = Staged(coord, "nutated", "compute_nutation")
    /\ UNCHANGED not_coord

\* Lines 139-147: the Apparent object is filled in and returned.
ApparentReturn ==
    /\ coord.stage = "nutated"
    /\ coord' = [coord EXCEPT !.stage = "apparent"]
    /\ UNCHANGED not_coord

\* Lines 160-216: Apparent.horizontal()
Horizontal ==
    /\ coord.stage = "apparent"
    /\ IF ~HasObserverFrame(coord.observer)
       THEN coord' = [coord EXCEPT !.stage = "raised",
                                   !.error = MissingObserverFrame]
       ELSE LET proj == Sqrt(coord.pn * coord.pn + coord.pw * coord.pw)
                zd == ArcTan2(proj, coord.pz)
            IN  IF proj > 0
                THEN coord' = [coord EXCEPT
                         !.stage = "horizontal",
                         !.az = NormalizeAzimuth(-ArcTan2(coord.pw, coord.pn)),
                         !.zd = zd,
                         !.alt = quarter_tau - zd]
                ELSE coord' = [coord EXCEPT !.stage = "raised",
                                            !.error = NoAzimuth]
    /\ UNCHANGED not_coord

CallObserve ==
    /\ coord.stage = "none"
    /\ \E observer \in Observers, g \in LimbGeometries,
          pz \in {-1, 0, Big}, pn \in Components, pw \in Components :
            Observe(observer, g, pz, pn, pw)

NextCoordinates ==
    \/ CallObserve
    \/ ApparentDecide
    \/ ApparentDeflection
    \/ ApparentAberration
    \/ ApparentFrame
    \/ ApparentPrecession
    \/ ApparentNutation
    \/ ApparentReturn
    \/ Horizontal

SpecCoordinates == Init /\ [][NextCoordinates]_vars

(***************************************************************************)
(* skyfield/timescales.py: JulianDate, julian_date and cal_date.           *)
(*                                                                         *)
(* A scale of a JulianDate is an array of one date, <<v>>, with v in       *)
(* milliseconds from T0; <<>> is None.  delta_t is in milliseconds.        *)
(***************************************************************************)
DayMs == 86400000
None == <<>>
\* _sequence = ['tdb', 'tt', 'ut1', 'utc']
ScaleNames == <<"tdb", "tt", "ut1", "utc">>
Scales == {ScaleNames[i] : i \in 1..4}
\* _sequence_indexes.get(name, None), counted from 0; -1 for None.
SequenceIndex(name) ==
    IF name \in Scales THEN (CHOOSE i \in 1..4 : ScaleNames[i] = name) - 1
    ELSE -1
\* The keys an instance __dict__ can have.
DictKeys == Scales \cup {"delta_t", "shape"}

\* tdb_minus_tt(jd) / 86400.0, in milliseconds.  The series of Circular 179
\* is not evaluated: a function of the date of the same size (under 2 ms)
\* and of both signs stands for it.
TdbMinusTt(v) ==
    LET phase == (v \div DayMs) % 4
    IN  CASE phase = 0 -> 1
          [] phase = 1 -> 2
          [] phase = 2 -> -1
          [] OTHER -> -2

NoScaleError == "ValueError: you must supply either tdb= tt= ut1= or utc="
NoSuchAttribute == "AttributeError: no such attribute"
DieError == "NameError: name 'die' is not defined"
NoneError == "TypeError: unsupported operand type(s) for -: 'NoneType' and 'float'"

\* Lines 31-44: the instance __dict__ that __init__ fills.
InitDict(tdb, tt, ut1, utc, delta_t) ==
    [k \in DictKeys |->
        CASE k = "delta_t" -> <<delta_t>>
          [] k = "tdb" -> tdb
          [] k = "tt" -> tt
          [] k = "ut1" -> ut1
          [] k = "utc" -> utc
          [] OTHER -> IF <<tdb, tt, ut1, utc>> = <<None, None, None, None>>
                      THEN None ELSE <<1>>]

\* Line 46: not self.__dict__
DictIsEmpty(d) == \A k \in DictKeys : d[k] = None

Returned_(d, value) ==
    [dict |-> d, outcome |-> "returned", value |-> value, error |-> ""]
Raised_(d, err) ==
    [dict |-> d, outcome |-> "raised", value |-> None, error |-> err]

\* Lines 81-93 of __getattr__, d being the __dict__ as the lines before
\* have left it and tt, ut1 their local values.
GetAttrTail(d, i, tt, ut1) ==
    IF ut1 = None /\ d["utc"] # None
    THEN Raised_(d, DieError)
    ELSE LET derive == tt = None /\ ut1 # None
             tt2 == IF derive THEN <<ut1[1] + d["delta_t"][1]>> ELSE tt
             d2 == IF derive THEN [d EXCEPT !["tt"] = tt2] ELSE d
         IN  IF derive /\ i = 1
             THEN Returned_(d2, tt2)
             ELSE IF tt2 = None
                  THEN Raised_(d2, NoneError)
                  ELSE LET tdb == <<tt2[1] + TdbMinusTt(tt2[1])>>
                       IN  Returned_([d2 EXCEPT !["tdb"] = tdb], tdb)

\* Lines 49-93: JulianDate.__getattr__(name), which Python calls when name
\* is not in the instance __dict__ whose contents are d.
GetAttr(d, name) ==
    LET i == SequenceIndex(name)
        tdb == d["tdb"]
        deriveTt == i >= 1 /\ d["tt"] = None /\ tdb # None
        tt == IF deriveTt THEN <<tdb[1] - TdbMinusTt(tdb[1])>> ELSE d["tt"]
        d1 == IF deriveTt THEN [d EXCEPT !["tt"] = tt] ELSE d
        deriveUt1 == i >= 2 /\ d["ut1"] = None /\ tt # None
        ut1 == IF deriveUt1 THEN <<tt[1] - d["delta_t"][1]>> ELSE d["ut1"]
        d2 == IF deriveUt1 THEN [d1 EXCEPT !["ut1"] = ut1] ELSE d1
    IN  IF i = -1 THEN Raised_(d, NoSuchAttribute)
        ELSE IF deriveTt /\ i = 1 THEN Returned_(d1, tt)
        ELSE IF deriveUt1 /\ i = 2 THEN Returned_(d2, ut1)
        ELSE IF i = 3 /\ ut1 # None THEN Raised_(d2, DieError)
        ELSE GetAttrTail(d2, i, tt, ut1)

\* Mutant of ReadAttribute: __getattr__ runs on every read, as a
\* __getattribute__ would.
ReadAttributeAlways(d, name) == GetAttr(d, name)

\* Reading the attribute name of an instance: the value in the __dict__
\* if there is one, else __getattr__.
ReadAttribute(d, name) ==
    IF name \in DictKeys /\ d[name] # None
    THEN Returned_(d, d[name])
    ELSE GetAttr(d, name)

\* The dates a scale is given as, and the values of delta_t.
GivenDates == {<<0>>, <<DayMs>>, <<2 * DayMs + 500>>}
DeltaTs == {0, 67184}
AttributeNames == Scales \cup {"other"}

\* Lines 29-47: JulianDate(tdb, tt, ut1, utc, delta_t)
NewJulianDate(tdb, tt, ut1, utc, delta_t) ==
    LET d == InitDict(tdb, tt, ut1, utc, delta_t)
        supplied == {k \in Scales : d[k] # None}
    IN  /\ date.stage = "none"
        /\ date' = [stage |-> IF DictIsEmpty(d) THEN "raised" ELSE "made",
                    supplied |-> supplied,
                    dict |-> d,
                    reads |-> 0,
                    read |-> "",
                    outcome |-> IF DictIsEmpty(d) THEN "raised" ELSE "none",
                    value |-> None,
                    error |-> IF DictIsEmpty(d) THEN NoScaleError ELSE ""]
        /\ UNCHANGED not_date


\* A caller reads the attribute name of the JulianDate.
ReadJulianDate(name) ==
    /\ date.stage = "made"
    /\ date.reads < MaxReads
    /\ \E r \in {ReadAttribute(date.dict, name)} :
          date' = [date EXCEPT !.dict = r.dict,
                               !.reads = date.reads + 1,
                               !.read = name,
                               !.outcome = r.outcome,
                               !.value = r.value,
                               !.error = r.error]
    /\ UNCHANGED not_date

\* month < 3, as the number it is in the arithmetic of julian_date.
\* Mutant of JanFeb: January and February are not told apart.
JanFebNever(month) == 0

JanFeb(month) == IF month < 3 THEN 1 ELSE 0

\* Lines 95-101: julian_date(year, month, day, hour); // is floor division.
julian_date(year, month, day, hour) ==
    LET janfeb == JanFeb(month)
        whole == day - 32075
                 + (1461 * (year + 4800 - janfeb)) \div 4
                 + (367 * (month - 2 + janfeb * 12)) \div 12
                 - (3 * ((year + 4900 - janfeb) \div 100)) \div 4
    IN  QAdd(QSub(Whole(whole), Rat(1, 2)), Rat(hour, 24))

\* int(x): the whole number towards zero.
IntOf(q) == IF q[1] >= 0 THEN q[1] \div q[2] ELSE -((-q[1]) \div q[2])

\* Lines 103-121: cal_date(jd)
cal_date(jd0) ==
    LET jd1 == QAdd(jd0, Rat(1, 2))
        hour == QMul(QSub(jd1, Whole(QFloor(jd1))), Whole(24))
        k0 == IntOf(jd1) + 68569
        n == (4 * k0) \div 146097
        k1 == k0 - (146097 * n + 3) \div 4
        m == (4000 * (k1 + 1)) \div 1461001
        k2 == k1 - (1461 * m) \div 4 + 31
        month0 == (80 * k2) \div 2447
        day == k2 - (2447 * month0) \div 80
        k3 == month0 \div 11
        month == month0 + 2 - 12 * k3
        year == 100 * (n - 49) + m + k3
    IN  <<year, month, day, hour>>

\* The calendar dates converted: the years, and the days of a month.
Years == {FirstYear, FirstYear + 100, -4712, 2023, 2024}
IsLeap(year) == year % 4 = 0 /\ (year % 100 # 0 \/ year % 400 = 0)
DaysIn(year, month) ==
    IF month = 2 THEN (IF IsLeap(year) THEN 29 ELSE 28)
    ELSE IF month \in {4, 6, 9, 11} THEN 30 ELSE 31
Hours == {0, 12}

\* A caller computes julian_date(year, month, day, hour).
CallJulianDate ==
    /\ date.stage = "none"
    /\ \E year \in Years, month \in 1..12, hour \in Hours :
        \E day \in 1..DaysIn(year, month) :
          date' = [stage |-> "julian", args |-> <<year, month, day, hour>>,
                   jd |-> julian_date(year, month, day, hour)]
    /\ UNCHANGED not_date

\* The caller gives the result to cal_date.
CallCalDate ==
    /\ date.stage = "julian"
    /\ date' = [stage |-> "calendar", args |-> date.args, jd |-> date.jd,
                back |-> cal_date(date.jd)]
    /\ UNCHANGED not_date

CallNewJulianDate ==
    /\ date.stage = "none"
    /\ \E tdb \in {None} \cup GivenDates, tt \in {None} \cup GivenDates,
          ut1 \in {None} \cup GivenDates, utc \in {None} \cup GivenDates,
          delta_t \in DeltaTs :
            NewJulianDate(tdb, tt, ut1, utc, delta_t)

CallReadJulianDate == \E name \in AttributeNames : ReadJulianDate(name)

NextTime ==
    \/ CallNewJulianDate
    \/ CallReadJulianDate
    \/ CallJulianDate
    \/ CallCalDate

SpecTime == Init /\ [][NextTime]_vars

(***************************************************************************)
(* skyfield/almanac.py: the builders of observables.                       *)
(*                                                                         *)
(* The ephemeris is an oracle: what it answers for the time of an          *)
(* evaluation (the longitudes of the sun and the moon in the angle units   *)
(* of TAU, the altitude of the sun in ten-thousandths of a degree, a       *)
(* distance) is an input of the evaluation.                                *)
(***************************************************************************)
Builders ==
    {"seasons", "sunrise_sunset", "moon_phases", "_distance_to",
     "satellite_visible", "satellite_apices"}

SecondsOfDay == 86400

\* A satellite that climbs for two seconds and is then below the horizon
\* again, with the two orbital periods (in seconds) of Satellites.
BuiltSatellites ==
    {sat \in Satellites : \A i \in 0..MaxPassT : sat.alt[i] = i % 3}

\* The attribute rough_period of the function a builder returns, in days:
\* <<period>>, or None when the builder does not set it.
RoughPeriodOf(builder, sat) ==
    CASE builder = "seasons" -> <<Whole(90)>>
      [] builder = "sunrise_sunset" -> <<Rat(1, 2)>>
      [] builder = "moon_phases" -> <<Whole(7)>>
      [] builder = "satellite_visible" ->
             <<QDiv(SatelliteVisible(sat).rough_period, Whole(SecondsOfDay))>>
      [] builder = "satellite_apices" ->
             <<QDiv(SatelliteApices(sat).rough_period, Whole(SecondsOfDay))>>
      [] OTHER -> None

\* Mutant of Quadrant: the division rounds towards zero.
QuadrantTowardsZero(angle) ==
    (IF angle >= 0 THEN angle \div quarter_tau
     ELSE -((-angle) \div quarter_tau)) % 4

\* angle // (tau / 4) % 4: floor division, and the remainder has the sign
\* of the divisor.
Quadrant(angle) == (angle \div quarter_tau) % 4

SunAltitudeThreshold == -8333

\* What the ephemeris answers at the time of an evaluation.
Longitudes == {0, 1, 15, 16, 31, 32, 48, 63}
Skies ==
    [slon : Longitudes, mlon : Longitudes,
     sun_alt : {SunAltitudeThreshold - 1, SunAltitudeThreshold,
                SunAltitudeThreshold + 1},
     distance : {1}]

\* iau2000b(t.tt): the nutation angles of the shorter series, named by the
\* series and the date.
Iau2000b(tt) == <<"iau2000b", tt>>

\* The Time objects given to an observable: tt in seconds, and the
\* attribute _nutation_angles, None when it has not been set.
TimeObjects ==
    [tt : {Whole(1), Whole(3)},
     nutation_angles : {None, <<"iau2000a", Whole(1)>>}]

\* t._nutation_angles = iau2000b(t.tt), the first statement of season_at,
\* is_sun_up_at, moon_phase_at, distance_at, is_satellite_up_at and
\* is_satellite_rising.
AfterEvaluation(t) == [t EXCEPT !.nutation_angles = Iau2000b(t.tt)]

\* The value the built function returns for the Time t.
BuiltValue(builder, sat, sky, t) ==
    CASE builder = "seasons" -> <<Quadrant(sky.slon)>>
      [] builder = "moon_phases" -> <<Quadrant(sky.mlon - sky.slon)>>
      [] builder = "sunrise_sunset" -> <<sky.sun_alt > SunAltitudeThreshold>>
      [] builder = "satellite_visible" ->
             <<ValueAt(SatelliteVisible(sat), t.tt)>>
      [] builder = "satellite_apices" ->
             <<ValueAt(SatelliteApices(sat), t.tt)>>
      [] OTHER -> <<sky.distance>>

NoRoughPeriod ==
    "AttributeError: 'function' object has no attribute 'rough_period'"

\* A builder is called and returns a function.
Build ==
    /\ built.stage = "none"
    /\ \E builder \in Builders, sat \in BuiltSatellites :
          built' = [stage |-> "built", builder |-> builder, sat |-> sat,
                    rough_period |-> RoughPeriodOf(builder, sat),
                    before |-> [tt |-> Whole(0), nutation_angles |-> None],
                    t |-> [tt |-> Whole(0), nutation_angles |-> None],
                    sky |-> CHOOSE sky \in Skies : TRUE,
                    value |-> None, read |-> None, error |-> ""]
    /\ UNCHANGED not_built

\* The function is called with a Time.
EvaluateBuilt ==
    /\ built.stage \in {"built", "read"}
    /\ \E t \in TimeObjects, sky \in Skies :
          built' = [built EXCEPT
              !.stage = "evaluated",
              !.before = t,
              !.t = AfterEvaluation(t),
              !.sky = sky,
              !.value = BuiltValue(built.builder, built.sat, sky, t)]
    /\ UNCHANGED not_built

\* The search engine reads f.rough_period (lines 80 and 120).
ReadRoughPeriod ==
    /\ built.stage = "built"
    /\ built' = [built EXCEPT
           !.stage = IF built.rough_period = None THEN "raised" ELSE "read",
           !.read = built.rough_period,
           !.error = IF built.rough_period = None THEN NoRoughPeriod ELSE ""]
    /\ UNCHANGED not_built

NextBuilders ==
    \/ Build
    \/ EvaluateBuilt
    \/ ReadRoughPeriod

SpecBuilders == Init /\ [][NextBuilders]_vars

(***************************************************************************)
(* ICRS.__sub__ (coordinates.py).  A position object is an XYZ: a position *)
(* vector, a velocity vector or None, and a date jd that is one date or an *)
(* array of dates.                                                         *)
(***************************************************************************)
Vectors == [1..3 -> {0, 1}]
JdShapes == {"scalar", "array"}
PositionObjects ==
    [position : Vectors, velocity : Vectors \cup {None}, jd : JdShapes]

\* numpy's u - v on two vectors.
VectorSub(u, v) == [i \in 1..3 |-> u[i] - v[i]]

NoReshape == "AttributeError: 'NoneType' object has no attribute 'reshape'"

\* XYZ.__init__: with a jd of shape () the position and the velocity are
\* reshaped, and None has no reshape.
XYZ(position, velocity, date_jd) ==
    IF date_jd = "scalar" /\ velocity = None
    THEN [raised |-> TRUE, error |-> NoReshape,
          position |-> None, velocity |-> None, jd |-> date_jd]
    ELSE [raised |-> FALSE, error |-> "",
          position |-> position, velocity |-> velocity, jd |-> date_jd]

\* ICRS.__sub__(self, body).
Sub(self, body) ==
    LET velocity == IF self.velocity = None \/ body.velocity = None
                    THEN None
                    ELSE VectorSub(body.velocity, self.velocity)
    IN  XYZ(VectorSub(self.position, body.position), velocity, self.jd)

\* Two position objects are made.
NewPositions ==
    /\ coord.stage = "none"
    /\ \E a \in PositionObjects, b \in PositionObjects :
          coord' = [stage |-> "made", given |-> <<a, b>>,
                    self |-> a, body |-> b,
                    difference |-> XYZ(None, None, "array")]
    /\ UNCHANGED not_coord

\* The caller evaluates self - body.
Subtract ==
    /\ coord.stage = "made"
    /\ \E xyz \in {Sub(coord.self, coord.body)} :
          coord' = [coord EXCEPT
              !.stage = IF xyz.raised THEN "raised" ELSE "subtracted",
              !.difference = xyz]
    /\ UNCHANGED not_coord

NextSubtraction ==
    \/ NewPositions
    \/ Subtract

SpecSubtraction == Init /\ [][NextSubtraction]_vars

(***************************************************************************)
(* Helpers of the properties.                                              *)
(***************************************************************************)
Discrete == routine = "find_discrete"
Returned == pc = "returned"
Width(k) == QSub(hi[k], lo[k])
Brackets == 1..Len(lo)
Events == 1..Len(result.times)
\* The whole times in (a, b] at which the step observable f changes value.
ChangesIn(f, a, b) ==
    {c \in 1..MaxT : /\ QLt(a, Whole(c))
                     /\ QLe(Whole(c), b)
                     /\ f.vals[c - 1] # f.vals[c]}
\* The returned event times in (a, b].
EventsIn(a, b) ==
    {i \in Events : QLt(a, result.times[i]) /\ QLe(result.times[i], b)}
CoarseIntervals == 1..(Len(coarse) - 1)

(***************************************************************************)
(* C1.  A search call (find_discrete or _find_maxima) with start >= end    *)
(* raises the range ValueError, and f has not been evaluated.              *)
(***************************************************************************)
C1_RangeErrorBeforeEvaluation ==
    (pc # "idle" /\ QLe(args.jd1, args.jd0)) =>
        /\ pc = "raised"
        /\ error = RangeError
        /\ evals = 0
        /\ result = NoResult

C1_Witness ==
    /\ routine = "_find_maxima"
    /\ args.jd1 = args.jd0
    /\ pc = "raised"
    /\ error = RangeError

(***************************************************************************)
(* C2.  find_discrete on an observable that has one value at all sample    *)
(* times, start < end: after one evaluation it returns empty times and     *)
(* empty values, with no error.                                            *)
(***************************************************************************)
ConstantOnSamples ==
    \A i \in 1..Len(coarse) :
        ValueAt(args.f, coarse[i]) = ValueAt(args.f, coarse[1])

C2_ConstantGivesEmpty ==
    (Discrete /\ QLt(args.jd0, args.jd1) /\ ConstantOnSamples) =>
        \/ pc = "loop" /\ evals = 0
        \/ /\ pc = "returned"
           /\ evals = 1
           /\ result = NoResult
           /\ error = ""

C2_Witness ==
    /\ Discrete
    /\ pc = "returned"
    /\ ConstantOnSamples
    /\ \A c \in 1..MaxT : args.f.vals[c] = args.f.vals[0]
    /\ args.num = 4
    /\ result = NoResult

(***************************************************************************)
(* C3.  As claimed: whenever f changes value at a time t* inside the       *)
(* searched interval, find_discrete returns an event time within epsilon   *)
(* of t*.                                                                  *)
(***************************************************************************)
Near(c) ==
    \E i \in Events :
        /\ QLe(QSub(result.times[i], Whole(c)), args.epsilon)
        /\ QLe(QSub(Whole(c), result.times[i]), args.epsilon)

C3_EveryChangeFound ==
    (Discrete /\ Returned) =>
        \A c \in ChangesIn(args.f, args.jd0, args.jd1) : Near(c)

\* A change of f is isolated when it is the only one between the two
\* initial samples around it.
Isolated(c) ==
    \E k \in CoarseIntervals :
        ChangesIn(args.f, coarse[k], coarse[k + 1]) = {c}

\* Every returned time is the upper end of a bracket of width <= epsilon
\* across which f changes value.
EventsAreBracketed ==
    /\ Len(result.times) = Len(hi)
    /\ \A i \in Events :
        /\ result.times[i] = hi[i]
        /\ QLt(lo[i], hi[i])
        /\ QLe(Width(i), args.epsilon)
        /\ ValueAt(args.f, lo[i]) # ValueAt(args.f, hi[i])

(***************************************************************************)
(* C3, amended.  When find_discrete returns: a change of f at t* in        *)
(* (start, end] that is the only change of f between two adjacent initial  *)
(* samples has a returned event time t with 0 <= t - t* <= epsilon; and    *)
(* every returned time is the upper end of a bracket of width <= epsilon   *)
(* across which f changes value.                                           *)
(***************************************************************************)
C3_IsolatedChangeFound ==
    (Discrete /\ Returned) =>
        /\ EventsAreBracketed
        /\ \A c \in ChangesIn(args.f, args.jd0, args.jd1) :
              Isolated(c) =>
                 \E i \in Events :
                    /\ QLe(Whole(c), result.times[i])
                    /\ QLe(QSub(result.times[i], Whole(c)), args.epsilon)

C3_Witness ==
    /\ Discrete
    /\ Returned
    /\ evals >= 3
    /\ Len(result.times) >= 2
    /\ \E c \in ChangesIn(args.f, args.jd0, args.jd1) :
          /\ Isolated(c)
          /\ \E i \in Events :
                /\ QLt(Whole(c), result.times[i])
                /\ QLe(QSub(result.times[i], Whole(c)), args.epsilon)

(***************************************************************************)
(* C4.  Every event find_discrete returns has as its time the upper bound  *)
(* of its converged bracket and as its value f at that time, which differs *)
(* from f at the lower bound of the bracket.                               *)
(***************************************************************************)
C4_ValueAfterTransition ==
    (Discrete /\ Returned) =>
        /\ Len(result.values) = Len(result.times)
        /\ Len(result.times) = Len(hi)
        /\ \A i \in Events :
            /\ result.times[i] = hi[i]
            /\ result.values[i] = ValueAt(args.f, result.times[i])
            /\ result.values[i] # ValueAt(args.f, lo[i])

C4_Witness ==
    /\ Discrete
    /\ Returned
    /\ evals >= 2
    /\ Len(result.times) >= 2
    /\ result.values[1] = 2
    /\ result.values[2] = 1

(***************************************************************************)
(* C5.  As claimed: for every num >= 2, a refinement round of              *)
(* find_discrete makes every bracket strictly narrower than the brackets   *)
(* of the round before.                                                    *)
(***************************************************************************)
Narrower ==
    \A i \in 1..Len(lo') : \A j \in Brackets :
        QLt(QSub(hi'[i], lo'[i]), Width(j))

RefinementRound ==
    /\ Discrete
    /\ pc = "loop"
    /\ evals >= 1
    /\ evals' = evals + 1

C5_EveryRoundNarrows ==
    [][(RefinementRound /\ args.num >= 2) => Narrower]_vars

\* The number of evaluations after which brackets that start at the given
\* width and shrink by the factor num - 1 per round are within epsilon.
RECURSIVE RoundsNeeded(_, _, _)
RoundsNeeded(width, epsilon, num) ==
    IF QLe(width, epsilon) THEN 1
    ELSE 1 + RoundsNeeded(QDiv(width, Whole(num - 1)), epsilon, num)

(***************************************************************************)
(* C5, amended.  With times taken as exact reals, for every start < end,   *)
(* epsilon > 0, fan-out num >= 3 and discrete f, each refinement round of  *)
(* find_discrete makes every bracket strictly narrower than in the round   *)
(* before, and the call returns: it evaluates f no more often than it      *)
(* takes to shrink the initial sample spacing to epsilon by the factor     *)
(* num - 1 per round.                                                      *)
(***************************************************************************)
C5_NarrowsAndReturns ==
    /\ [][(RefinementRound /\ args.num >= 3) => Narrower]_vars
    /\ []((Discrete /\ pc = "loop" /\ args.num >= 3) =>
            evals < RoundsNeeded(QSub(coarse[2], coarse[1]),
                                 args.epsilon, args.num))

C5_Witness ==
    /\ Discrete
    /\ Returned
    /\ args.num = 3
    /\ evals >= 4
    /\ Len(result.times) >= 1

(***************************************************************************)
(* C7.  As claimed: the result of find_discrete has at most one event in   *)
(* each interval between two adjacent initial samples.                     *)
(***************************************************************************)
C7_AtMostOneEventPerInterval ==
    (Discrete /\ Returned) =>
        \A k \in CoarseIntervals :
            Cardinality(EventsIn(coarse[k], coarse[k + 1])) <= 1

(***************************************************************************)
(* C7, amended.  Transitions of f between two adjacent initial samples at  *)
(* which f has the same value are not detected: the result has no event    *)
(* in that interval.  An interval at whose two ends f differs has at least *)
(* one event (and may have several).                                       *)
(***************************************************************************)
C7_EventsOnlyWhereEndsDiffer ==
    (Discrete /\ Returned) =>
        \A k \in CoarseIntervals :
            IF ValueAt(args.f, coarse[k]) = ValueAt(args.f, coarse[k + 1])
            THEN EventsIn(coarse[k], coarse[k + 1]) = {}
            ELSE EventsIn(coarse[k], coarse[k + 1]) # {}

C7_Witness ==
    /\ Discrete
    /\ Returned
    /\ \E k \in CoarseIntervals :
          /\ ValueAt(args.f, coarse[k]) = ValueAt(args.f, coarse[k + 1])
          /\ ChangesIn(args.f, coarse[k], coarse[k + 1]) # {}
          /\ EventsIn(coarse[k], coarse[k + 1]) = {}
    /\ \E k \in CoarseIntervals :
          EventsIn(coarse[k], coarse[k + 1]) # {}

PassReturned == pass.stage = "returned"
PassRaised == pass.stage = "raised"
Tuples == 1..Len(pass.tuples)
\* The events of the first search are t (times) and y (TRUE: a rise).
\* The first detected event is a set: the pass began before from_time.
StartsInsidePass == pass.stage # "idle" /\ pass.t # <<>> /\ ~pass.y[1]
\* The last detected event is a rise: the pass extends past to_time.
EndsInsidePass == pass.stage # "idle" /\ pass.t # <<>> /\ pass.y[Len(pass.t)]
\* rise and set are one pass: the set is the event that follows the rise.
SamePass(rise, set) ==
    \E j \in 1..(Len(pass.t) - 1) :
        /\ pass.t[j] = rise
        /\ pass.y[j]
        /\ pass.t[j + 1] = set
        /\ ~pass.y[j + 1]

(***************************************************************************)
(* C8.  In every tuple get_satellite_passes returns, the rise time is      *)
(* strictly before the apex time and the apex time strictly before the     *)
(* set time.                                                               *)
(***************************************************************************)
C8_RiseApexSetInOrder ==
    PassReturned =>
        \A k \in Tuples :
            /\ QLt(pass.tuples[k][1], pass.tuples[k][3])
            /\ QLt(pass.tuples[k][3], pass.tuples[k][5])

\* What the code does give: the apex is after the rise and not after the
\* set (it is the upper end of a bracket inside [rise, set]).
C8_ApexNotAfterSet ==
    PassReturned =>
        \A k \in Tuples :
            /\ QLt(pass.tuples[k][1], pass.tuples[k][3])
            /\ QLe(pass.tuples[k][3], pass.tuples[k][5])

(***************************************************************************)
(* C9.  A pass that began before from_time (the first event is a set) or   *)
(* that extends past to_time (the last event is a rise) is dropped by the  *)
(* pairing: a call with from_time < to_time returns normally, and every    *)
(* returned tuple has a rise and the set that ends that same pass.         *)
(***************************************************************************)
C9_PartialPassesDropped ==
    (pass.stage # "idle" /\ QLt(pass.from_time, pass.to_time)) =>
        /\ ~PassRaised
        /\ \A k \in 1..Len(pass.rise_set_times) :
              SamePass(pass.rise_set_times[k][1], pass.rise_set_times[k][2])
        /\ PassReturned =>
              \A k \in Tuples :
                  SamePass(pass.tuples[k][1], pass.tuples[k][5])

\* The part of C9 that the code does have: a pass that extends past to_time
\* is dropped when the first event is a rise.
C9_TrailingRiseDropped ==
    (PassReturned /\ ~StartsInsidePass) =>
        /\ Len(pass.tuples) = Len(pass.set_time)
        /\ EndsInsidePass => Len(pass.rise_time) = Len(pass.tuples) + 1
        /\ \A k \in Tuples : SamePass(pass.tuples[k][1], pass.tuples[k][5])

\* The part the code does not have: when the first event is a set and a
\* rise follows it, the call does not return.
C9_LeadingSetNotDropped ==
    (StartsInsidePass /\ pass.rise_time # <<>>) => ~PassReturned

HorizontalCalled == coord.stage \in {"horizontal", "raised"}
HorizontalReturned == coord.stage = "horizontal"
RawAzimuth == -ArcTan2(coord.pw, coord.pn)
\* An angle in radians, in tenths of a degree.
ToDegrees(angle) == (angle * 3600) \div TAU
LimbAngle ==
    LET g == coord.geometry
    IN  IF g.above_surface THEN (1800 - g.arcsin) - g.zdobj
        ELSE 900 - g.zdobj
DeflectionCalled ==
    coord.stage \notin {"none", "gcrs", "decided"}
ApparentOrder ==
    <<"add_deflection", "add_aberration", "ICRS_to_J2000",
      "compute_precession", "compute_nutation">>
StagesRun ==
    CASE coord.stage \in {"gcrs", "decided"} -> 0
      [] coord.stage = "deflected" -> 1
      [] coord.stage = "aberrated" -> 2
      [] coord.stage = "rotated" -> 3
      [] coord.stage = "precessed" -> 4
      [] OTHER -> 5

(***************************************************************************)
(* C11.  horizontal() on an apparent position whose observer has no topos  *)
(* with up, north and west raises the ValueError about the missing         *)
(* observer location and gives no Horizontal result.                       *)
(***************************************************************************)
C11_MissingObserverFrameRaises ==
    (HorizontalCalled /\ ~coord.observer.topos) =>
        /\ coord.stage = "raised"
        /\ coord.error = MissingObserverFrame

C11_Witness ==
    /\ coord.stage = "raised"
    /\ ~coord.observer.topos
    /\ ~coord.observer.geocentric
    /\ coord.error = MissingObserverFrame

(***************************************************************************)
(* C12.  The azimuth that horizontal() stores is in [0, TAU), that is in   *)
(* [0, 360) degrees: a raw value in that range is kept, a negative raw     *)
(* value has a full turn added, and a value that has reached a full turn   *)
(* has a full turn taken off.                                              *)
(***************************************************************************)
C12_AzimuthNormalized ==
    HorizontalReturned =>
        /\ 0 <= coord.az
        /\ coord.az < TAU
        /\ 0 <= ToDegrees(coord.az)
        /\ ToDegrees(coord.az) < 3600
        /\ RawAzimuth >= 0 => coord.az = RawAzimuth
        /\ RawAzimuth < 0 =>
              \/ coord.az = RoundFloat(RawAzimuth + TAU)
              \/ /\ RoundFloat(RawAzimuth + TAU) = TAU
                 /\ coord.az = 0

C12_Witness ==
    /\ HorizontalReturned
    /\ RawAzimuth < 0
    /\ coord.az = RawAzimuth + TAU

(***************************************************************************)
(* C13.  The flag apparent() passes to add_deflection is false for a       *)
(* geocentric observer, and for any other observer it is true exactly when *)
(* the limb angle is at least 0.8 degrees.                                 *)
(***************************************************************************)
C13_EarthDeflectionFlag ==
    DeflectionCalled =>
        /\ coord.observer.geocentric => ~coord.passed
        /\ ~coord.observer.geocentric =>
              (coord.passed <=> LimbAngle >= 8)
        /\ coord.passed => LimbAngle >= 8

C13_Witness ==
    /\ DeflectionCalled
    /\ coord.observer.geocentric
    /\ LimbAngle >= 8
    /\ ~coord.passed

(***************************************************************************)
(* C20.  apparent() runs its stages in one order, each once and each on    *)
(* the output of the one before: the deflection decision, add_deflection,  *)
(* add_aberration, the rotation by ICRS_to_J2000, precession, nutation.    *)
(***************************************************************************)
C20_StagesInOrder ==
    coord.stage # "none" =>
        /\ coord.position = SubSeq(ApparentOrder, 1, StagesRun)
        /\ coord.stage \in {"apparent", "horizontal", "raised"} =>
              coord.position = ApparentOrder
        /\ DeflectionCalled =>
              coord.passed = coord.include_earth_deflection

C20_Witness ==
    /\ coord.stage = "apparent"
    /\ coord.position = ApparentOrder
    /\ coord.passed

(***************************************************************************)
(* Helpers of the properties of JulianDate and the calendar functions.     *)
(***************************************************************************)
DateMade == date.stage \in {"made", "raised"}
ScaleRead == date.stage = "made" /\ date.read \in Scales
FromOneScale == Cardinality(date.supplied) = 1

(***************************************************************************)
(* C14.  For a JulianDate made from exactly one of tdb, tt, ut1 and utc,   *)
(* reading any of the four attributes tdb, tt, ut1 and utc gives a value   *)
(* and raises no error.                                                    *)
(***************************************************************************)
C14_AllScalesDerivable ==
    (ScaleRead /\ FromOneScale) =>
        /\ date.outcome = "returned"
        /\ date.value # None

\* What the code does give: tdb, tt and ut1 are derivable from each other.
C14_ThreeScalesDerivable ==
    (ScaleRead /\ FromOneScale /\ date.supplied # {"utc"}
               /\ date.read # "utc") =>
        /\ date.outcome = "returned"
        /\ date.value # None
        /\ date.dict[date.read] = date.value

\* And what it does not: utc is neither derived nor derived from.
C14_UtcNotDerivable ==
    (ScaleRead /\ FromOneScale
        /\ date.reads = 1
        /\ (date.supplied = {"utc"}) # (date.read = "utc")) =>
        /\ date.outcome = "raised"
        /\ date.error = DieError

(***************************************************************************)
(* C15.  JulianDate(...) with none of tdb, tt, ut1 and utc supplied raises *)
(* the ValueError 'you must supply either tdb= tt= ut1= or utc=', for      *)
(* every delta_t.                                                          *)
(***************************************************************************)
C15_NoScaleRaises ==
    (DateMade /\ date.supplied = {}) =>
        /\ date.stage = "raised"
        /\ date.error = NoScaleError

\* What the code does: the object is made, and a scale read from it fails
\* on None.
C15_NoScaleFailsLater ==
    (DateMade /\ date.supplied = {}) =>
        /\ date.stage = "made"
        /\ date.dict["delta_t"] # None
        /\ date.read \in Scales =>
              (date.outcome = "raised" /\ date.error = NoneError)

(***************************************************************************)
(* C16.  cal_date inverts julian_date on whole days: for every date        *)
(* (year, month, day) of the Gregorian calendar in the years converted,    *)
(* cal_date(julian_date(year, month, day, 0.0)) is (year, month, day, 0.0).*)
(***************************************************************************)
C16_CalDateInvertsJulianDate ==
    (date.stage = "calendar" /\ date.args[4] = 0) =>
        date.back = <<date.args[1], date.args[2], date.args[3], Whole(0)>>

C16_Witness ==
    /\ date.stage = "calendar"
    /\ date.args = <<2024, 2, 29, 0>>
    /\ date.jd = Rat(4920739, 2)
    /\ date.back = <<2024, 2, 29, Whole(0)>>

(***************************************************************************)
(* Helpers of the properties of the builders.                              *)
(***************************************************************************)
Built == built.stage # "none"
Evaluated == built.stage = "evaluated"
\* The quadrant of an angle of [0, TAU).
QuadrantOf(angle) ==
    CHOOSE q \in 0..3 :
        q * quarter_tau <= angle /\ angle < (q + 1) * quarter_tau
\* An angle of (-TAU, TAU) brought into [0, TAU).
Reduced(angle) == IF angle < 0 THEN angle + TAU ELSE angle

(***************************************************************************)
(* C17.  Every builder of the almanac (seasons, sunrise_sunset,            *)
(* moon_phases, satellite_visible, satellite_apices and _distance_to)      *)
(* returns a function with the attribute rough_period, so that the search  *)
(* routines can read f.rough_period of it; the value is 90 days for        *)
(* seasons, 0.5 day for sunrise_sunset, 7 days for moon_phases and 1 day   *)
(* for satellite_apices.                                                   *)
(***************************************************************************)
C17_EveryBuilderSetsRoughPeriod ==
    Built =>
        /\ built.rough_period # None
        /\ built.stage # "raised"
        /\ built.builder = "seasons" => built.rough_period = <<Whole(90)>>
        /\ built.builder = "sunrise_sunset" =>
              built.rough_period = <<Rat(1, 2)>>
        /\ built.builder = "moon_phases" => built.rough_period = <<Whole(7)>>
        /\ built.builder = "satellite_apices" =>
              built.rough_period = <<Whole(1)>>

\* What the code does give: the five builders other than _distance_to.
C17_PublicBuildersSetRoughPeriod ==
    (Built /\ built.builder # "_distance_to") =>
        /\ built.rough_period # None
        /\ built.stage # "raised"
        /\ built.builder = "seasons" => built.rough_period = <<Whole(90)>>
        /\ built.builder = "sunrise_sunset" =>
              built.rough_period = <<Rat(1, 2)>>
        /\ built.builder = "moon_phases" => built.rough_period = <<Whole(7)>>
        /\ built.builder = "satellite_apices" =>
              built.rough_period = <<Whole(1)>>

\* And what it does not: the search routines cannot read the rough_period
\* of a function built by _distance_to.
C17_DistanceHasNoRoughPeriod ==
    (built.stage \in {"read", "raised"} /\ built.builder = "_distance_to") =>
        /\ built.stage = "raised"
        /\ built.error = NoRoughPeriod

(***************************************************************************)
(* C18.  moon_phase_at returns the quadrant, 0 to 3, of the moon's         *)
(* longitude minus the sun's brought into [0, one turn), also when the     *)
(* difference is negative; season_at returns the quadrant of the sun's     *)
(* longitude.                                                              *)
(***************************************************************************)
C18_QuadrantOfAngle ==
    /\ (Evaluated /\ built.builder = "moon_phases") =>
          /\ built.value[1] \in 0..3
          /\ built.value[1] =
                 QuadrantOf(Reduced(built.sky.mlon - built.sky.slon))
    /\ (Evaluated /\ built.builder = "seasons") =>
          /\ built.value[1] \in 0..3
          /\ built.value[1] = QuadrantOf(built.sky.slon)

C18_Witness ==
    /\ Evaluated
    /\ built.builder = "moon_phases"
    /\ built.sky.mlon = 1
    /\ built.sky.slon = 16
    /\ built.value = <<3>>

(***************************************************************************)
(* C19.  Evaluating a built observable on a time value leaves that time    *)
(* value as it was: no attribute of it is added or modified.               *)
(***************************************************************************)
C19_TimeLeftUnchanged ==
    Evaluated => built.t = built.before

\* What the code does: every observable sets _nutation_angles of the Time
\* it is given, and nothing else of it.
C19_NutationAnglesSet ==
    Evaluated =>
        /\ built.t.tt = built.before.tt
        /\ built.t.nutation_angles = Iau2000b(built.before.tt)
        /\ built.t # built.before

(***************************************************************************)
(* C22.  The events find_discrete returns are ordered and alternate: the   *)
(* returned times are strictly increasing, every one of them lies in       *)
(* (start, end], and two consecutive returned values differ.               *)
(***************************************************************************)
C22_EventsOrderedAndAlternate ==
    (Discrete /\ Returned) =>
        /\ Len(result.values) = Len(result.times)
        /\ \A k \in Events :
            /\ QLt(args.jd0, result.times[k])
            /\ QLe(result.times[k], args.jd1)
        /\ \A k \in 1..(Len(result.times) - 1) :
            /\ QLt(result.times[k], result.times[k + 1])
            /\ result.values[k] # result.values[k + 1]

C22_Witness ==
    /\ Discrete
    /\ Returned
    /\ evals >= 2
    /\ Len(result.times) >= 3
    /\ result.values[1] = result.values[3]

\* base ** exponent, for the integer fan-out.
RECURSIVE Power(_, _)
Power(base, exponent) ==
    IF exponent = 0 THEN 1 ELSE base * Power(base, exponent - 1)

\* The spacing of the initial samples of the call.
InitialSpacing == QSub(coarse[2], coarse[1])

ParentsOf(a, b) == {j \in Brackets : QLe(lo[j], a) /\ QLe(b, hi[j])}

\* The samples of the coming round are the mini-partitions of the brackets,
\* num samples each: position b * num is the last sample of the b-th one.
Joins == 1..(Len(lo) - 1)

(***************************************************************************)
(* C24.  In find_discrete, every bracket detected in a refinement round    *)
(* lies inside exactly one bracket of the round before; and in the         *)
(* concatenated samples f has the same value at the last sample of one     *)
(* mini-partition and at the first sample of the next, so that no bracket  *)
(* spans the gap between two brackets of the round before.                 *)
(***************************************************************************)
C24_BracketsNestInParents ==
    /\ [][RefinementRound =>
            \A i \in 1..Len(lo') :
                Cardinality(ParentsOf(lo'[i], hi'[i])) = 1]_vars
    /\ []((Discrete /\ pc = "loop" /\ evals >= 1) =>
            /\ Len(jd) = Len(lo) * args.num
            /\ \A b \in Joins :
                ValueAt(args.f, jd[b * args.num]) =
                    ValueAt(args.f, jd[b * args.num + 1]))

C24_Witness ==
    /\ Discrete
    /\ pc = "loop"
    /\ evals >= 2
    /\ Len(lo) >= 2
    /\ QLt(jd[args.num], jd[args.num + 1])

(***************************************************************************)
(* Helpers of the properties of _find_maxima.                              *)
(***************************************************************************)
Maxima == routine = "_find_maxima"
Continuous == Maxima /\ args.f.kind = "linear"
\* The whole times strictly inside (start, end).
Interior == (QFloor(args.jd0) + 1)..(QFloor(args.jd1) - 1)
\* f rises strictly from start to p and falls strictly from p to end.
PeakAt(p) ==
    /\ \A k \in QFloor(args.jd0)..(p - 1) : args.f.vals[k] < args.f.vals[k + 1]
    /\ \A k \in p..(QFloor(args.jd1) - 1) : args.f.vals[k] > args.f.vals[k + 1]
Unimodal == \E p \in Interior : PeakAt(p)
\* f has a strict local maximum at a time strictly inside (start, end).
HasInteriorMaximum ==
    \E p \in Interior :
        args.f.vals[p - 1] < args.f.vals[p] /\ args.f.vals[p] > args.f.vals[p + 1]
\* |a - b| of two rationals.
Distance(a, b) == IF QLe(a, b) THEN QSub(b, a) ELSE QSub(a, b)
NoMaximumRaised == pc = "raised" /\ error = NoMaximumError

(***************************************************************************)
(* C25.  As claimed: for f strictly increasing to a single peak and then   *)
(* strictly decreasing, the peak strictly inside (start, end), a call of   *)
(* _find_maxima with num = 12 raises no error and returns exactly one      *)
(* time, within epsilon of the peak; and the error 'cannot find a maximum  *)
(* in that range' is raised only when f has no interior local maximum.     *)
(***************************************************************************)
C25_SinglePeakFound ==
    (Continuous /\ args.num = DefaultNum) =>
        /\ Unimodal => pc # "raised"
        /\ (Unimodal /\ Returned) =>
            /\ Len(result.times) = 1
            /\ \A p \in Interior :
                PeakAt(p) =>
                    QLe(Distance(result.times[1], Whole(p)), args.epsilon)
        /\ NoMaximumRaised => ~HasInteriorMaximum

\* A refinement round of _find_maxima: f is evaluated on the samples laid
\* inside the brackets of the round before.
MaximaRefinementRound ==
    /\ Maxima
    /\ pc = "loop"
    /\ evals >= 1
    /\ evals' = evals + 1

\* The positions in the coming samples at which the coming round detects a
\* rise followed by a fall.
ComingIndices == MaximaIndices(SignDiff(args.f, Evaluate(args.f, jd)))

\* The three samples from position i on belong to one mini-partition.
WithinMiniPartition(i) == (i - 1) % args.num <= args.num - 3

(***************************************************************************)
(* C26.  As claimed: in _find_maxima every three-sample bracket detected   *)
(* in a refinement round lies inside exactly one bracket of the round      *)
(* before; no rise-then-fall is detected across the join of two            *)
(* mini-partitions; and all brackets of a round have the same width.       *)
(***************************************************************************)
C26_MaximaBracketsNest ==
    /\ [][MaximaRefinementRound =>
            \A i \in 1..Len(lo') :
                Cardinality(ParentsOf(lo'[i], hi'[i])) = 1]_vars
    /\ []((Maxima /\ pc = "loop" /\ evals >= 1) =>
            \A k \in 1..Len(ComingIndices) :
                WithinMiniPartition(ComingIndices[k]))
    /\ []((Maxima /\ pc \in {"loop", "returned"} /\ evals >= 1) =>
            \A k \in Brackets : Width(k) = Width(1))

Shrunk(width) == QDiv(QMul(Whole(2), width), Whole(args.num - 1))
\* The distance from the start of a bracket to its last sample but one.
Advance(width) == QDiv(QMul(Whole(args.num - 2), width), Whole(args.num - 1))

C28_DifferenceSameOrientation ==
    (/\ coord.stage \in {"subtracted", "raised"}
     /\ coord.given[1].velocity # None
     /\ coord.given[2].velocity # None) =>
        /\ coord.stage = "subtracted"
        /\ coord.difference.position =
               VectorSub(coord.given[1].position, coord.given[2].position)
        /\ coord.difference.velocity =
               VectorSub(coord.given[1].velocity, coord.given[2].velocity)
        /\ coord.self = coord.given[1]
        /\ coord.body = coord.given[2]

(***************************************************************************)
(* C29.  As claimed: for an observer with a Topos, horizontal() returns a  *)
(* Horizontal result (az, zd and alt assigned, the distance copied after   *)
(* them) whatever the direction of the target, the zenith and the nadir,   *)
(* where the horizontal projection is 0, included.                         *)
(***************************************************************************)
C29_HorizontalCompletes ==
    (HorizontalCalled /\ coord.observer.topos) =>
        /\ HorizontalReturned
        /\ coord.error = ""
        /\ coord.alt = quarter_tau - coord.zd

\* A step that is one attribute read of the JulianDate.
ReadStep ==
    /\ date.stage = "made"
    /\ date'.stage = "made"
    /\ date'.reads = date.reads + 1
\* The scales the __dict__ d holds.
Present(d) == {k \in Scales : d[k] # None}
\* The read only adds scales: what was stored is still stored, unchanged.
OnlyAdds ==
    /\ date'.dict["delta_t"] = date.dict["delta_t"]
    /\ \A k \in Present(date.dict) : date'.dict[k] = date.dict[k]
\* A scale that is stored is returned as it is and nothing is computed.
StoredIsReturned ==
    date'.read \in Present(date.dict) =>
        /\ date'.outcome = "returned"
        /\ date'.value = date.dict[date'.read]
        /\ date'.dict = date.dict

=============================================================================
